---- MODULE Spec2Model ----
(***************************************************************************)
(* Model of the legacy-TMS login endpoint (server/app/domain/auth):        *)
(* endpoint adapter `login`, orchestrator `AuthService.execute`, store     *)
(* accessor `AuthRepository.find_user_by_username`, credential verifier,   *)
(* token issuer.                                                           *)
(*                                                                         *)
(* A Python str is a sequence of characters.  A character up to U+00FF is  *)
(* itself; any other character is written as its code point, "UC0AC"       *)
(* being U+C0AC.  A Python class name (type(error).__name__) is a          *)
(* one-element sequence holding the name.  Optional[T] is a sequence of    *)
(* length 0 (None) or 1.                                                   *)
(***************************************************************************)
EXTENDS Integers, Sequences, FiniteSets, TLC

VARIABLES
    store,        \* rows of T_USER: USER_ID -> [password, user_name]
    pc,           \* position of the request in login/execute
    body,         \* JSON body of the POST /auth/login being served
    request,      \* Optional[LoginRequest] handed to login
    fault,        \* the store round-trip of this request raised
    user_record,  \* Optional[UserRecord] returned by the repository
    token,        \* Optional[str] returned by _generate_temp_token
    exc,          \* Optional exception caught by execute
    result,       \* Optional[ServiceResult] returned by execute
    status,       \* HTTP status of the response, 0 while none was sent
    detail,       \* Optional[str]: detail of the HTTPException raised by login
    data,         \* Optional[LoginResponse]: body of the 200 response
    log,          \* entries emitted by the service and repository loggers
    calls,        \* components invoked by execute for this request, in order
    probe,        \* Optional[str]: username handed to verify_user_exists
    exists        \* Optional[bool] returned by verify_user_exists

vars == <<store, pc, body, request, fault, user_record, token, exc, result,
          status, detail, data, log, calls, probe, exists>>

----------------------------------------------------------------------------
(* Bounds *)

MaxLen == 2
MaxPieces == 2

----------------------------------------------------------------------------
(* Optional values *)

None == << >>
Some(x) == <<x>>

----------------------------------------------------------------------------
(* String literals of the source *)

\* "sayongja ID-neun bin munjayeol-il su eopsseumnida"
MSG_EMPTY_USERNAME ==
    <<"UC0AC", "UC6A9", "UC790", " ", "I", "D", "UB294", " ", "UBE48", " ",
      "UBB38", "UC790", "UC5F4", "UC77C", " ", "UC218", " ", "UC5C6", "UC2B5",
      "UB2C8", "UB2E4">>

\* "bimilbeonho-neun bin munjayeol-il su eopsseumnida"
MSG_EMPTY_PASSWORD ==
    <<"UBE44", "UBC00", "UBC88", "UD638", "UB294", " ", "UBE48", " ", "UBB38",
      "UC790", "UC5F4", "UC77C", " ", "UC218", " ", "UC5C6", "UC2B5", "UB2C8",
      "UB2E4">>

\* "bimilbeonho-ga ilchihaji anseumnida"
MSG_PASSWORD_MISMATCH ==
    <<"UBE44", "UBC00", "UBC88", "UD638", "UAC00", " ", "UC77C", "UCE58",
      "UD558", "UC9C0", " ", "UC54A", "UC2B5", "UB2C8", "UB2E4">>

\* "sayongja-reul chajeul su eopsseumnida: "
MSG_NOT_FOUND_PREFIX ==
    <<"UC0AC", "UC6A9", "UC790", "UB97C", " ", "UCC3E", "UC744", " ", "UC218",
      " ", "UC5C6", "UC2B5", "UB2C8", "UB2E4", ":", " ">>

\* "sayongja ID ttoneun bimilbeonho-ga olbareuji anseumnida"
MSG_VAGUE ==
    <<"UC0AC", "UC6A9", "UC790", " ", "I", "D", " ", "UB610", "UB294", " ",
      "UBE44", "UBC00", "UBC88", "UD638", "UAC00", " ", "UC62C", "UBC14",
      "UB974", "UC9C0", " ", "UC54A", "UC2B5", "UB2C8", "UB2E4">>

\* "login cheori jung oryu-ga balsaenghaessseumnida"
MSG_GENERIC ==
    <<"UB85C", "UADF8", "UC778", " ", "UCC98", "UB9AC", " ", "UC911", " ",
      "UC624", "UB958", "UAC00", " ", "UBC1C", "UC0DD", "UD588", "UC2B5",
      "UB2C8", "UB2E4">>

\* "login seonggong"
MSG_LOGIN_OK == <<"UB85C", "UADF8", "UC778", " ", "UC131", "UACF5">>

\* "chajeul su eopsseumnida"
PAT_NOT_FOUND ==
    <<"UCC3E", "UC744", " ", "UC218", " ", "UC5C6", "UC2B5", "UB2C8", "UB2E4">>

\* "ilchihaji anseumnida"
PAT_MISMATCH ==
    <<"UC77C", "UCE58", "UD558", "UC9C0", " ", "UC54A", "UC2B5", "UB2C8", "UB2E4">>

\* "olbareuji anseumnida"
PAT_INCORRECT ==
    <<"UC62C", "UBC14", "UB974", "UC9C0", " ", "UC54A", "UC2B5", "UB2C8", "UB2E4">>

\* "bin munjayeol"
PAT_EMPTY == <<"UBE48", " ", "UBB38", "UC790", "UC5F4">>

TOKEN_PREFIX == <<"t", "e", "m", "p", "_", "t", "o", "k", "e", "n", "_">>

\* "Hong Gildong"
NAME_HONG == <<"UD64D", "UAE38", "UB3D9">>

UsernameMaxLength == 100
PasswordMaxLength == 200

----------------------------------------------------------------------------
(* Inputs *)

Alphabet == {"a", "b", " ", "\t", "U3000"}

Strings(n) == UNION {[1..k -> Alphabet] : k \in 0..n}

\* values secrets.token_urlsafe(32) may return
RandomParts == {<<"A">>, <<"B">>}

StoreIds == {<<"a">>, <<"a", "b">>}
StorePasswords == {<<"b">>, <<"a", " ">>}

Stores ==
    UNION {[ids -> [password : StorePasswords, user_name : {NAME_HONG}]]
           : ids \in SUBSET StoreIds}

\* text of the exception a failed round-trip raises
DB_ERROR_TEXT == <<"O", "R", "A", "-", "0", "3", "1", "1", "3">>

----------------------------------------------------------------------------
(* str helpers *)

\* the characters str.strip() removes: U+0009..U+000D, U+001C..U+001F,
\* U+0020, U+0085, U+00A0, U+1680, U+2000..U+200A, U+2028, U+2029, U+202F,
\* U+205F, U+3000
Whitespace ==
    {" ", "\t", "\n", "\r", "\f", "", "", "", "", "", "", " ",
     "U1680", "U2000", "U2001", "U2002", "U2003", "U2004", "U2005", "U2006",
     "U2007", "U2008", "U2009", "U200A", "U2028", "U2029", "U202F", "U205F",
     "U3000"}

RECURSIVE lstrip(_)
lstrip(s) ==
    IF s = << >> THEN s
    ELSE IF Head(s) \in Whitespace THEN lstrip(Tail(s)) ELSE s

RECURSIVE rstrip(_)
rstrip(s) ==
    IF s = << >> THEN s
    ELSE IF s[Len(s)] \in Whitespace THEN rstrip(SubSeq(s, 1, Len(s) - 1)) ELSE s

strip(s) == rstrip(lstrip(s))

\* p in s
Contains(s, p) ==
    \E i \in 1..(Len(s) - Len(p) + 1) : SubSeq(s, i, i + Len(p) - 1) = p

----------------------------------------------------------------------------
(* Schemas *)

\* Field(min_length=1, max_length=100) / Field(min_length=1, max_length=200)
LoginRequestValid(b) ==
    /\ Len(b.username) >= 1
    /\ Len(b.username) <= UsernameMaxLength
    /\ Len(b.password) >= 1
    /\ Len(b.password) <= PasswordMaxLength

LoginResponse(user_id, user_name, tok, message) ==
    [user_id |-> user_id, user_name |-> user_name, token |-> tok,
     message |-> message]

UserRecord(user_id, password, user_name) ==
    [user_id |-> user_id, password |-> password, user_name |-> user_name]

----------------------------------------------------------------------------
(* Exceptions and result envelope (server.app.shared) *)

ValidationException(message) ==
    [type |-> <<"ValidationException">>, message |-> message]

NotFoundException(message) ==
    [type |-> <<"NotFoundException">>, message |-> message]

\* whatever the driver raises from db.execute / fetchone
DatabaseError(message) ==
    [type |-> <<"DatabaseError">>, message |-> message]

ExceptionStr(error) == error.message

ServiceResult_ok(payload, metadata) ==
    [success |-> TRUE, data |-> Some(payload), error |-> None,
     metadata |-> metadata]

ServiceResult_fail_keeps_payload(error, metadata) ==
    [success |-> FALSE, data |-> error, error |-> error,
     metadata |-> metadata]

\* error is the Optional[str] handed to ServiceResult.fail
ServiceResult_fail(error, metadata) ==
    [success |-> FALSE, data |-> None, error |-> error,
     metadata |-> metadata]

----------------------------------------------------------------------------
(* Log entries *)

LogEntry(logger, level, msg, text, exc_info, extra) ==
    [logger |-> logger, level |-> level, msg |-> msg, text |-> text,
     exc_info |-> exc_info, extra |-> extra]

----------------------------------------------------------------------------
(* AuthRepository *)

find_user_by_username_swallow(db, username, raises) ==
    IF raises \/ username \notin DOMAIN db
    THEN [ret |-> None, raised |-> None,
          logs |-> <<LogEntry("repository", "info", "User not found in Oracle DB",
                              None, FALSE, <<<<"username", username>>>>)>>]
    ELSE [ret |-> Some(UserRecord(username, db[username].password,
                                  db[username].user_name)),
          raised |-> None,
          logs |-> <<LogEntry("repository", "info", "User found in Oracle DB",
                              None, FALSE,
                              <<<<"username", username>>,
                                <<"user_name", db[username].user_name>>>>)>>]

\* SELECT USER_ID, PASSWORD, USER_NAME FROM T_USER WHERE USER_ID = :username
\* raises: the round-trip inside the try block raised
find_user_by_username(db, username, raises) ==
    IF raises
    THEN LET e == DatabaseError(DB_ERROR_TEXT) IN
         [ret |-> None, raised |-> Some(e),
          logs |-> <<LogEntry("repository", "error",
                              "Error querying Oracle DB for user", None, TRUE,
                              <<<<"username", username>>,
                                <<"error", ExceptionStr(e)>>>>)>>]
    ELSE IF username \notin DOMAIN db
    THEN [ret |-> None, raised |-> None,
          logs |-> <<LogEntry("repository", "info", "User not found in Oracle DB",
                              None, FALSE, <<<<"username", username>>>>)>>]
    ELSE [ret |-> Some(UserRecord(username, db[username].password,
                                  db[username].user_name)),
          raised |-> None,
          logs |-> <<LogEntry("repository", "info", "User found in Oracle DB",
                              None, FALSE,
                              <<<<"username", username>>,
                                <<"user_name", db[username].user_name>>>>)>>]

\* user = await self.find_user_by_username(username); return user is not None
verify_user_exists(db, username, raises) ==
    LET r == find_user_by_username(db, username, raises) IN
    [ret |-> IF r.raised # None THEN None ELSE Some(r.ret # None),
     raised |-> r.raised,
     logs |-> r.logs]

----------------------------------------------------------------------------
(* AuthService *)

\* Optional exception raised by validate_request
validate_request(req) ==
    IF strip(req.username) = << >>
    THEN Some(ValidationException(MSG_EMPTY_USERNAME))
    ELSE IF strip(req.password) = << >>
    THEN Some(ValidationException(MSG_EMPTY_PASSWORD))
    ELSE None

_verify_password(input_password, stored_password) ==
    input_password = stored_password

_generate_temp_token_bare(random) == random

\* random: the value secrets.token_urlsafe(32) returned
_generate_temp_token(random) == TOKEN_PREFIX \o random

handle_error_passthrough(error, req) ==
    [logs |-> <<LogEntry("service", "error", "Error in AuthService: ",
                         Some(ExceptionStr(error)),
                         error.type \notin {<<"ValidationException">>,
                                            <<"NotFoundException">>},
                         <<<<"username", req.username>>>>)>>,
     result |-> ServiceResult_fail(
                    Some(IF error.type \in {<<"ValidationException">>,
                                            <<"NotFoundException">>}
                         THEN ExceptionStr(error)
                         ELSE MSG_GENERIC),
                    [error_type |-> error.type, username |-> req.username])]

handle_error_logs_password(error, req) ==
    [logs |-> <<LogEntry("service", "error", "Error in AuthService: ",
                         Some(ExceptionStr(error)),
                         error.type \notin {<<"ValidationException">>,
                                            <<"NotFoundException">>},
                         <<<<"username", req.username>>,
                           <<"password", req.password>>>>)>>,
     result |-> ServiceResult_fail(
                    Some(IF error.type = <<"ValidationException">>
                         THEN ExceptionStr(error)
                         ELSE IF error.type = <<"NotFoundException">>
                         THEN MSG_VAGUE
                         ELSE MSG_GENERIC),
                    [error_type |-> error.type, username |-> req.username])]

handle_error(error, req) ==
    [logs |-> <<LogEntry("service", "error", "Error in AuthService: ",
                         Some(ExceptionStr(error)),
                         error.type \notin {<<"ValidationException">>,
                                            <<"NotFoundException">>},
                         <<<<"username", req.username>>>>)>>,
     result |-> ServiceResult_fail(
                    Some(IF error.type = <<"ValidationException">>
                         THEN ExceptionStr(error)
                         ELSE IF error.type = <<"NotFoundException">>
                         THEN MSG_VAGUE
                         ELSE MSG_GENERIC),
                    [error_type |-> error.type, username |-> req.username])]

----------------------------------------------------------------------------
(* Endpoint adapter *)

\* result.error or "<generic>"
ErrorMessageOf(res) ==
    IF res.error = None \/ res.error = Some(<< >>)
    THEN MSG_GENERIC
    ELSE res.error[1]

HttpStatusFor_empty_first(error_message) ==
    IF Contains(error_message, PAT_EMPTY)
    THEN 400
    ELSE IF \/ Contains(error_message, PAT_NOT_FOUND)
            \/ Contains(error_message, PAT_MISMATCH)
            \/ Contains(error_message, PAT_INCORRECT)
    THEN 401
    ELSE 500

HttpStatusFor(error_message) ==
    IF \/ Contains(error_message, PAT_NOT_FOUND)
       \/ Contains(error_message, PAT_MISMATCH)
       \/ Contains(error_message, PAT_INCORRECT)
    THEN 401
    ELSE IF Contains(error_message, PAT_EMPTY)
    THEN 400
    ELSE 500

\* what login answers for the envelope execute returned
LoginOutcome(res) ==
    IF ~res.success
    THEN [status |-> HttpStatusFor(ErrorMessageOf(res)),
          detail |-> Some(ErrorMessageOf(res)), data |-> None]
    ELSE [status |-> 200, detail |-> None, data |-> res.data]

----------------------------------------------------------------------------
(* One behaviour serves one operation: a login request, or a call of the  *)
(* repository's verify_user_exists.  No object outlives an operation, and *)
(* operations share nothing but the store, which they only read, so what  *)
(* other tasks do while one awaits its round-trip does not reach it.  The *)
(* before_execute / after_execute hooks of BaseService are inherited       *)
(* unchanged by AuthService and take no part in the flow.                  *)

Init ==
    /\ store \in Stores
    /\ pc = "idle"
    /\ body = [username |-> << >>, password |-> << >>]
    /\ request = None
    /\ fault = FALSE
    /\ user_record = None
    /\ token = None
    /\ exc = None
    /\ result = None
    /\ status = 0
    /\ detail = None
    /\ data = None
    /\ log = << >>
    /\ calls = << >>
    /\ probe = None
    /\ exists = None

\* a body the LoginRequest schema rejects never reaches login: the web
\* framework answers the request-validation error itself (422)
RejectBody ==
    /\ pc = "idle"
    /\ \E u \in Strings(MaxLen), p \in Strings(MaxLen) :
          /\ ~LoginRequestValid([username |-> u, password |-> p])
          /\ body' = [username |-> u, password |-> p]
    /\ pc' = "done"
    /\ status' = 422
    /\ UNCHANGED <<probe, exists, store, request, fault, user_record, token, exc, result,
                   detail, data, log, calls>>

\* login is entered with a LoginRequest: service = AuthService(oracle_db),
\* service.execute(request)
AcceptBody ==
    /\ pc = "idle"
    /\ \E u \in Strings(MaxLen), p \in Strings(MaxLen) :
          /\ LoginRequestValid([username |-> u, password |-> p])
          /\ body' = [username |-> u, password |-> p]
          /\ request' = Some([username |-> u, password |-> p])
    /\ pc' = "validate"
    /\ UNCHANGED <<probe, exists, store, fault, user_record, token, exc, result, status,
                   detail, data, log, calls>>

\* 1. await self.validate_request(request)
Validate ==
    /\ pc = "validate"
    /\ calls' = Append(calls, "validate_request")
    /\ LET e == validate_request(request[1]) IN
          IF e # None
          THEN exc' = e /\ pc' = "except_expected"
          ELSE exc' = exc /\ pc' = "lookup"
    /\ UNCHANGED <<probe, exists, store, body, request, fault, user_record, token, result,
                   status, detail, data, log>>

\* 2. self.repository.find_user_by_username(request.username) is invoked
\*    and suspends in await self.db.execute(query, {"username": username})
LookupCall ==
    /\ pc = "lookup"
    /\ calls' = Append(calls, "find_user_by_username")
    /\ pc' = "lookup_wait"
    /\ UNCHANGED <<probe, exists, store, body, request, fault, user_record,
                   token, exc, result, status, detail, data, log>>

\*    the round-trip is over: the rest of find_user_by_username, then
\*    if user_record is None: warning, raise NotFoundException
LookupReturn ==
    /\ pc = "lookup_wait"
    /\ \E raises \in BOOLEAN :
          LET req == request[1]
              r == find_user_by_username(store, req.username, raises) IN
          /\ fault' = raises
          /\ IF r.raised # None
             THEN /\ exc' = r.raised
                  /\ log' = log \o r.logs
                  /\ user_record' = user_record
                  /\ pc' = "except_unexpected"
             ELSE IF r.ret = None
             THEN /\ exc' = Some(NotFoundException(
                                    MSG_NOT_FOUND_PREFIX \o req.username))
                  /\ log' = log \o r.logs \o
                            <<LogEntry("service", "warning",
                                       "Login failed: User not found", None,
                                       FALSE, <<<<"username", req.username>>>>)>>
                  /\ user_record' = r.ret
                  /\ pc' = "except_expected"
             ELSE /\ exc' = exc
                  /\ log' = log \o r.logs
                  /\ user_record' = r.ret
                  /\ pc' = "verify"
    /\ UNCHANGED <<probe, exists, store, body, request, token, result, status,
                   detail, data, calls>>

Verify_token_first ==
    /\ pc = "verify"
    /\ calls' = calls \o <<"_generate_temp_token", "_verify_password">>
    /\ \E random \in RandomParts : token' = Some(_generate_temp_token(random))
    /\ LET req == request[1] IN
          IF ~_verify_password(req.password, user_record[1].password)
          THEN /\ exc' = Some(ValidationException(MSG_PASSWORD_MISMATCH))
               /\ log' = Append(log,
                            LogEntry("service", "warning",
                                     "Login failed: Invalid password", None,
                                     FALSE, <<<<"username", req.username>>>>))
               /\ pc' = "except_expected"
          ELSE /\ exc' = exc
               /\ log' = log
               /\ pc' = "respond"
    /\ UNCHANGED <<probe, exists, store, body, request, fault, user_record, result,
                   status, detail, data>>

\* 3. if not await self._verify_password(...): warning, raise ValidationException
Verify ==
    /\ pc = "verify"
    /\ calls' = Append(calls, "_verify_password")
    /\ LET req == request[1] IN
          IF ~_verify_password(req.password, user_record[1].password)
          THEN /\ exc' = Some(ValidationException(MSG_PASSWORD_MISMATCH))
               /\ log' = Append(log,
                            LogEntry("service", "warning",
                                     "Login failed: Invalid password", None,
                                     FALSE, <<<<"username", req.username>>>>))
               /\ pc' = "except_expected"
          ELSE /\ exc' = exc
               /\ log' = log
               /\ pc' = "issue"
    /\ UNCHANGED <<probe, exists, store, body, request, fault, user_record, token, result,
                   status, detail, data>>

\* 4. token = self._generate_temp_token()
Issue ==
    /\ pc = "issue"
    /\ calls' = Append(calls, "_generate_temp_token")
    /\ \E random \in RandomParts : token' = Some(_generate_temp_token(random))
    /\ pc' = "respond"
    /\ UNCHANGED <<probe, exists, store, body, request, fault, user_record, exc, result,
                   status, detail, data, log>>

\* 5./6. LoginResponse, ServiceResult.ok, "Login successful", return result
Respond ==
    /\ pc = "respond"
    /\ LET req == request[1]
           rec == user_record[1] IN
          /\ result' = Some(ServiceResult_ok(
                               LoginResponse(rec.user_id, rec.user_name,
                                             token[1], MSG_LOGIN_OK),
                               [username |-> req.username,
                                user_id |-> rec.user_id]))
          /\ log' = Append(log,
                       LogEntry("service", "info", "Login successful", None,
                                FALSE,
                                <<<<"username", req.username>>,
                                  <<"user_id", rec.user_id>>>>))
    /\ pc' = "adapter"
    /\ UNCHANGED <<probe, exists, store, body, request, fault, user_record, token, exc,
                   status, detail, data, calls>>

\* except (ValidationException, NotFoundException) as e:
\*     return await self.handle_error(e, request)
ExceptExpected ==
    /\ pc = "except_expected"
    /\ LET h == handle_error(exc[1], request[1]) IN
          /\ log' = log \o h.logs
          /\ result' = Some(h.result)
    /\ pc' = "adapter"
    /\ UNCHANGED <<probe, exists, store, body, request, fault, user_record, token, exc,
                   status, detail, data, calls>>

\* except Exception as e: logger.error(...); return await self.handle_error(...)
ExceptUnexpected ==
    /\ pc = "except_unexpected"
    /\ LET h == handle_error(exc[1], request[1]) IN
          /\ log' = log \o
                    <<LogEntry("service", "error",
                               "Unexpected error during login", None, TRUE,
                               <<<<"username", request[1].username>>>>)>>
                    \o h.logs
          /\ result' = Some(h.result)
    /\ pc' = "adapter"
    /\ UNCHANGED <<probe, exists, store, body, request, fault, user_record, token, exc,
                   status, detail, data, calls>>

\* login: HTTPException for a failure envelope, result.data otherwise
Adapter ==
    /\ pc = "adapter"
    /\ LET o == LoginOutcome(result[1]) IN
          /\ status' = o.status
          /\ detail' = o.detail
          /\ data' = o.data
    /\ pc' = "done"
    /\ UNCHANGED <<probe, exists, store, body, request, fault, user_record, token, exc,
                   result, log, calls>>

\* a caller of the repository invokes verify_user_exists(username), which
\* suspends in the round-trip of find_user_by_username
VerifyUserExistsCall ==
    /\ pc = "idle"
    /\ \E u \in Strings(MaxLen) : probe' = Some(u)
    /\ pc' = "exists_wait"
    /\ UNCHANGED <<exists, store, body, request, fault, user_record, token,
                   exc, result, status, detail, data, log, calls>>

\* the round-trip is over: the answer, or the exception raised to the caller
VerifyUserExistsReturn ==
    /\ pc = "exists_wait"
    /\ \E raises \in BOOLEAN :
          LET r == verify_user_exists(store, probe[1], raises) IN
          /\ fault' = raises
          /\ exc' = r.raised
          /\ exists' = r.ret
          /\ log' = log \o r.logs
    /\ pc' = "exists_done"
    /\ UNCHANGED <<probe, store, body, request, user_record, token, result,
                   status, detail, data, calls>>

Next ==
    \/ RejectBody
    \/ AcceptBody
    \/ Validate
    \/ LookupCall
    \/ LookupReturn
    \/ Verify
    \/ Issue
    \/ Respond
    \/ ExceptExpected
    \/ ExceptUnexpected
    \/ Adapter
    \/ VerifyUserExistsCall
    \/ VerifyUserExistsReturn

Spec == Init /\ [][Next]_vars

----------------------------------------------------------------------------
(* The endpoint adapter alone, applied to failure envelopes with arbitrary *)
(* messages.                                                               *)

Pieces ==
    {PAT_NOT_FOUND, PAT_MISMATCH, PAT_INCORRECT, PAT_EMPTY,
     MSG_EMPTY_USERNAME, MSG_EMPTY_PASSWORD, MSG_PASSWORD_MISMATCH, MSG_VAGUE,
     MSG_GENERIC, <<"x">>, <<" ">>, <<"UBE48", " ">>, <<"UC54A", "UC2B5">>}

RECURSIVE Concat(_)
Concat(ss) == IF ss = << >> THEN << >> ELSE Head(ss) \o Concat(Tail(ss))

Messages ==
    {Concat(ps) : ps \in UNION {[1..k -> Pieces] : k \in 0..MaxPieces}}

FailureEnvelopes ==
    {ServiceResult_fail(e, [error_type |-> <<"Exception">>,
                            username |-> <<"a">>])
     : e \in {None} \cup {Some(m) : m \in Messages}}

InitAdapter ==
    /\ store \in {db \in Stores : DOMAIN db = {}}
    /\ pc = "adapter"
    /\ body = [username |-> <<"a">>, password |-> <<"b">>]
    /\ request = Some(body)
    /\ fault = FALSE
    /\ user_record = None
    /\ token = None
    /\ exc = None
    /\ result \in {Some(e) : e \in FailureEnvelopes}
    /\ status = 0
    /\ detail = None
    /\ data = None
    /\ log = << >>
    /\ calls = << >>
    /\ probe = None
    /\ exists = None

NextAdapter == Adapter

SpecAdapter == InitAdapter /\ [][NextAdapter]_vars

----------------------------------------------------------------------------
(* Properties *)

IsBlank(s) == \A i \in 1..Len(s) : s[i] \in Whitespace

HasSub(s, p) == \E i \in 0..Len(s), j \in 0..Len(s) : SubSeq(s, i + 1, j) = p

\* the request went through the schema and neither field is blank
Served == pc = "done" /\ request # None
NonBlank == ~IsBlank(body.username) /\ ~IsBlank(body.password)
Stored == body.username \in DOMAIN store

NotFoundCase == Served /\ NonBlank /\ ~fault /\ ~Stored
MismatchCase ==
    /\ Served /\ NonBlank /\ ~fault /\ Stored
    /\ store[body.username].password # body.password
MatchCase ==
    /\ Served /\ NonBlank /\ ~fault /\ Stored
    /\ store[body.username].password = body.password

\* what login answers a request whose username has no record
NotFoundAnswer(req) ==
    LoginOutcome(handle_error(NotFoundException(MSG_NOT_FOUND_PREFIX
                                                 \o req.username),
                              req).result)

\* C1: a login whose password differs from the stored one is answered 401
\* with the same detail text as a login whose username is not in the store.
C1_MismatchAnsweredAsNotFound ==
    MismatchCase =>
        /\ status = 401
        /\ detail = NotFoundAnswer(request[1]).detail

\* C2: a non-blank request matching a stored record is answered 200 with
\* user_id and user_name of the record, the success message, a token that
\* starts with "temp_token_", and envelope metadata {username, user_id}.
C2_MatchSucceeds ==
    MatchCase =>
        /\ status = 200
        /\ detail = None
        /\ result[1].success
        /\ data # None
        /\ data[1].user_id = body.username
        /\ data[1].user_name = store[body.username].user_name
        /\ data[1].message = MSG_LOGIN_OK
        /\ Len(data[1].token) >= Len(TOKEN_PREFIX)
        /\ SubSeq(data[1].token, 1, Len(TOKEN_PREFIX)) = TOKEN_PREFIX
        /\ result[1].metadata = [username |-> body.username,
                                 user_id |-> body.username]

C2_Witness == MatchCase /\ status = 200 /\ body.password = <<"a", " ">>

\* C3: a request whose username has no record is answered 401 with one
\* fixed detail text: not the exception's own message, which embeds the
\* submitted username.
C3_NotFoundIsVague ==
    NotFoundCase =>
        /\ status = 401
        /\ data = None
        /\ detail = Some(MSG_VAGUE)
        /\ detail # Some(MSG_NOT_FOUND_PREFIX \o body.username)
        /\ exc # None
        /\ exc[1].type = <<"NotFoundException">>

C3_Witness ==
    NotFoundCase /\ status = 401 /\ body.username = <<"b", "a">> /\ store # << >>

\* C4: a request whose username or password is empty or whitespace-only is
\* answered 400, and find_user_by_username is not invoked for it.
C4_BlankIs400BeforeLookup ==
    (pc = "done" /\ (IsBlank(body.username) \/ IsBlank(body.password))) =>
        /\ status = 400
        /\ \A i \in 1..Len(calls) : calls[i] # "find_user_by_username"

\* C5: when the store round-trip raises, the repository re-raises, execute
\* returns a failure envelope with the generic message, and the answer is
\* 500, never 401 or 400 (the failure is not turned into not-found); nor
\* does verify_user_exists answer "no such user" for it.
C5_StoreFailureIs500 ==
    /\ (fault /\ pc \in {"except_unexpected", "adapter", "done"}) =>
           /\ exc # None
           /\ exc[1].type \notin {<<"NotFoundException">>,
                                  <<"ValidationException">>}
           /\ user_record = None
           /\ pc \in {"adapter", "done"} =>
                 /\ ~result[1].success
                 /\ result[1].error = Some(MSG_GENERIC)
           /\ pc = "done" =>
                 /\ status = 500
                 /\ detail = Some(MSG_GENERIC)
                 /\ data = None
    /\ (fault /\ pc = "exists_done") =>
           /\ exc # None
           /\ exc[1].type \notin {<<"NotFoundException">>,
                                  <<"ValidationException">>}
           /\ exists = None

C5_Witness == pc = "done" /\ fault /\ ~Stored /\ status = 500

\* C6: for a failure envelope the status is 401 if the message contains one
\* of the three 401 phrases, otherwise 400 if it contains the empty-string
\* phrase, otherwise 500; a missing message counts as the generic message;
\* the detail is the message.
C6_StatusFromMessage ==
    (pc = "done" /\ result # None /\ ~result[1].success) =>
        LET e == result[1].error
            m == IF e = None \/ e = Some(<< >>) THEN MSG_GENERIC ELSE e[1]
            is401 == \/ HasSub(m, PAT_NOT_FOUND)
                     \/ HasSub(m, PAT_MISMATCH)
                     \/ HasSub(m, PAT_INCORRECT)
            is400 == HasSub(m, PAT_EMPTY)
        IN  /\ detail = Some(m)
            /\ data = None
            /\ is401 => status = 401
            /\ (~is401 /\ is400) => status = 400
            /\ (~is401 /\ ~is400) => status = 500

\* a message with both a 401 phrase and the 400 phrase
C6_Witness ==
    /\ pc = "done"
    /\ result[1].error = Some(PAT_EMPTY \o PAT_MISMATCH)
    /\ status = 401

\* C8: every envelope execute returns has exactly one of payload and error:
\* success carries a LoginResponse and no error, failure an error message
\* and no payload.  ServiceResult is defined outside the source at hand:
\* that ok sets no error and fail no payload is its documented invariant;
\* of execute it is checked that ok is handed the LoginResponse with the
\* issued token and fail a non-empty message, on every path.
C8_ExactlyOneOfPayloadError ==
    result # None =>
        /\ (result[1].data # None) # (result[1].error # None)
        /\ result[1].success =>
              /\ result[1].data # None
              /\ result[1].data[1].token = token[1]
        /\ ~result[1].success =>
              /\ result[1].error # None
              /\ result[1].error[1] # << >>

C8_Witness == pc = "done" /\ fault /\ result # None /\ ~result[1].success

Pipeline ==
    <<"validate_request", "find_user_by_username", "_verify_password",
      "_generate_temp_token">>

Invoked(c) == \E i \in 1..Len(calls) : calls[i] = c

\* C9: execute runs validate, lookup, verify, issue in this order, each at
\* most once; the verifier only after the lookup returned a record, the
\* issuer only after the verifier returned true; a failure for validation,
\* not-found or mismatch has issued no token.
C9_LinearOrder ==
    /\ Len(calls) <= Len(Pipeline)
    /\ calls = SubSeq(Pipeline, 1, Len(calls))
    /\ Invoked("_verify_password") => (~fault /\ Stored /\ user_record # None)
    /\ Invoked("_generate_temp_token") =>
          /\ Invoked("_verify_password")
          /\ store[body.username].password = body.password
    /\ token # None => Invoked("_generate_temp_token")
    /\ (result # None /\ ~result[1].success /\
        result[1].metadata.error_type \in {<<"ValidationException">>,
                                           <<"NotFoundException">>}) =>
          /\ token = None
          /\ ~Invoked("_generate_temp_token")

C9_Witness == MismatchCase /\ ~result[1].success /\ calls = SubSeq(Pipeline, 1, 3)

LoggedValues(entry) ==
    {entry.extra[i][2] : i \in 1..Len(entry.extra)}
    \cup {entry.text[i] : i \in 1..Len(entry.text)}

MetadataValues(res) == {res.metadata[k] : k \in DOMAIN res.metadata}

Disclosed ==
    UNION {LoggedValues(log[i]) : i \in 1..Len(log)}
    \cup (IF result = None THEN {} ELSE MetadataValues(result[1]))

Probed == probe # None /\ probe[1] \in DOMAIN store

Passwords ==
    {body.password}
    \cup (IF Stored THEN {store[body.username].password} ELSE {})
    \cup (IF Probed THEN {store[probe[1]].password} ELSE {})

\* values the code logs on purpose
Identifiers ==
    {body.username}
    \cup (IF Stored THEN {store[body.username].user_name} ELSE {})
    \cup (IF probe # None THEN {probe[1]} ELSE {})
    \cup (IF Probed THEN {store[probe[1]].user_name} ELSE {})

Logged(msg) == \E i \in 1..Len(log) : log[i].msg = msg

\* C10: no log entry and no envelope metadata carries the submitted or the
\* stored password (a value that is also the username or the user name is
\* there as such); the log tells user-not-found from password-mismatch.
C10_NoPasswordDisclosed ==
    /\ \A v \in Disclosed : v \in Passwords => v \in Identifiers
    /\ NotFoundCase =>
          /\ Logged("Login failed: User not found")
          /\ ~Logged("Login failed: Invalid password")
    /\ MismatchCase =>
          /\ Logged("Login failed: Invalid password")
          /\ ~Logged("Login failed: User not found")

C10_Witness ==
    /\ MismatchCase
    /\ body.password \notin Identifiers
    /\ store[body.username].password \notin Identifiers
    /\ Len(log) >= 3

====
